---- MODULE Spec2Model ----
(***************************************************************************)
(* Model of src/src/eda_functions.py: the statistical summaries, the       *)
(* revenue rule, the metric table and the top/bottom restaurant report.    *)
(*                                                                         *)
(* Every function of the module is a pure transformation of its arguments. *)
(* Each one gets a specification of its own: the dataset (or the argument  *)
(* list) is built row by row, then the function is called once and its     *)
(* return value is kept in ret.                                            *)
(*                                                                         *)
(* Numbers.  Floats are modelled exactly, as integer numerators over a     *)
(* fixed denominator; a value rounded to 2 decimals is an integer number   *)
(* of hundredths.  A missing cell / NaN is the empty tuple <<>> and a      *)
(* present cell holding v is <<v>>.                                        *)
(***************************************************************************)
EXTENDS Integers, Sequences, FiniteSets, TLC

VARIABLES
    data,      \* the DataFrame passed in: a sequence of rows (records)
    args,      \* the other arguments of the call in progress
    ret,       \* the value the call returned
    pc,        \* "build" while the input is assembled, then the call's position
    metrics,   \* metrics_to_dataframe: the local list metrics
    values,    \* metrics_to_dataframe: the local list values
    units      \* metrics_to_dataframe: the local list units

vars == <<data, args, ret, pc, metrics, values, units>>

(***************************************************************************)
(* Shared helpers                                                          *)
(***************************************************************************)
NaN == <<>>

IsNaN(c) == c = <<>>

Min(a, b) == IF a <= b THEN a ELSE b

Max(a, b) == IF a >= b THEN a ELSE b

Abs(a) == IF a >= 0 THEN a ELSE -a

RECURSIVE SumSeq(_)
SumSeq(s) == IF s = <<>> THEN 0 ELSE Head(s) + SumSeq(Tail(s))

\* number of decimals kept by .round(2) / round(value, 2)
Decimals == 2

\* .mul(100) / * 100: shares are reported in percent
PercentFactor == 100

Scale == 10 ^ Decimals

\* round(): num/den rounded to the nearest integer, ties to the even one
\* (numpy.round and Python's round on an exactly representable tie)
RoundTruncate(num, den) == num \div den

round(num, den) ==
    LET q == num \div den
        r == num % den
    IN IF 2 * r < den THEN q
       ELSE IF 2 * r > den THEN q + 1
       ELSE IF q % 2 = 0 THEN q ELSE q + 1

(***************************************************************************)
(* get_total_revenue(x, uL, lL)                                            *)
(* x is a cost of x / CostDen dollars, uL and lL are rate numerators; the  *)
(* returned revenue is a numerator over the product of the denominators.   *)
(***************************************************************************)
CostDen == 4
MaxCost == 90
MaxRate == 3

UpperThreshold == 20
LowerThreshold == 5

get_total_revenue_inclusive(x, uL, lL) ==
    IF x >= UpperThreshold * CostDen THEN x * uL
    ELSE IF x >= LowerThreshold * CostDen THEN x * lL
    ELSE 0

get_total_revenue(x, uL, lL) ==
    IF x > UpperThreshold * CostDen THEN x * uL
    ELSE IF x > LowerThreshold * CostDen THEN x * lL
    ELSE 0

Costs == (-MaxCost)..MaxCost
Rates == 0..MaxRate

InitRev ==
    /\ data = <<>>
    /\ args = <<>>
    /\ ret = <<>>
    /\ pc = "build"
    /\ metrics = <<>>
    /\ values = <<>>
    /\ units = <<>>

CallRevenue ==
    /\ pc = "build"
    /\ \E x \in Costs, uL \in Rates, lL \in Rates :
          /\ args' = [x |-> x, uL |-> uL, lL |-> lL]
          /\ ret' = get_total_revenue(x, uL, lL)
    /\ pc' = "done"
    /\ UNCHANGED <<data, metrics, values, units>>

NextRev == CallRevenue

SpecRev == InitRev /\ [][NextRev]_vars

\* C1: the revenue is x*uL above 20, x*lL above 5 up to and including 20,
\* and 0 up to and including 5 (zero and negative costs included).
RevenuePiecewise ==
    pc = "done" =>
        LET x == args.x
        IN /\ (x > 20 * CostDen) => ret = x * args.uL
           /\ (x > 5 * CostDen /\ x <= 20 * CostDen) => ret = x * args.lL
           /\ (x <= 5 * CostDen) => ret = 0

\* the boundary cost 20 has been priced with two different non-zero rates
RevenueAtUpperBoundary ==
    /\ pc = "done"
    /\ args.x = 20 * CostDen
    /\ args.uL # args.lL
    /\ args.lL > 0
    /\ ret = 20 * CostDen * args.lL

(***************************************************************************)
(* metrics_to_dataframe, called with keyword arguments kwargs             *)
(* kwargs is the ordered keyword dictionary: a sequence of entries         *)
(* [metric, value, symbol] with pairwise different metric names, in the    *)
(* order the caller wrote them.  A value is value / ValDen.                *)
(***************************************************************************)
MaxMetrics == 2
MaxMetricVal == 3
ValDen == 8

MetricNames == <<"a", "b", "c">>
Symbols == {"$", "%"}
MetricVals == (-MaxMetricVal)..MaxMetricVal

NameRank(name) == CHOOSE i \in DOMAIN MetricNames : MetricNames[i] = name

\* the entries of kw in lexical order of their names
kwargs_items_sorted(kw) ==
    LET ranks == {NameRank(kw[i].metric) : i \in DOMAIN kw}
        F[k \in 0..Len(MetricNames)] ==
            IF k = 0 THEN <<>>
            ELSE IF k \in ranks
                 THEN Append(F[k - 1],
                             kw[CHOOSE i \in DOMAIN kw : NameRank(kw[i].metric) = k])
                 ELSE F[k - 1]
    IN F[Len(MetricNames)]

\* kwargs.items(): a dict iterates in insertion order
kwargs_items(kw) == kw

InitMet ==
    /\ data = <<>>
    /\ args = <<>>
    /\ ret = <<>>
    /\ pc = "build"
    /\ metrics = <<>>
    /\ values = <<>>
    /\ units = <<>>

\* the caller writes one more keyword argument
AddKwarg ==
    /\ pc = "build"
    /\ Len(args) < MaxMetrics
    /\ \E i \in DOMAIN MetricNames, v \in MetricVals, u \in Symbols :
          /\ \A j \in DOMAIN args : args[j].metric # MetricNames[i]
          /\ args' = Append(args, [metric |-> MetricNames[i], value |-> v, symbol |-> u])
    /\ UNCHANGED <<data, ret, pc, metrics, values, units>>

\* metrics = [], values = [], units = []
CallMetrics ==
    /\ pc = "build"
    /\ pc' = "loop"
    /\ metrics' = <<>>
    /\ values' = <<>>
    /\ units' = <<>>
    /\ UNCHANGED <<data, args, ret>>

\* one iteration of: for metric, (value, symbol) in kwargs.items()
MetricsLoop ==
    /\ pc = "loop"
    /\ Len(metrics) < Len(args)
    /\ LET item == kwargs_items(args)[Len(metrics) + 1]
       IN /\ metrics' = Append(metrics, item.metric)
          /\ values' = Append(values, round(item.value * Scale, ValDen))
          /\ units' = Append(units, item.symbol)
    /\ UNCHANGED <<data, args, ret, pc>>

\* dataframe = pd.DataFrame({"metric": ..., "unit": ..., "value": ...}); return
MetricsReturn ==
    /\ pc = "loop"
    /\ Len(metrics) = Len(args)
    /\ ret' = [i \in DOMAIN metrics |->
                  [metric |-> metrics[i], unit |-> units[i], value |-> values[i]]]
    /\ pc' = "done"
    /\ UNCHANGED <<data, args, metrics, values, units>>

NextMet == AddKwarg \/ CallMetrics \/ MetricsLoop \/ MetricsReturn

SpecMet == InitMet /\ [][NextMet]_vars

\* C8: the table has one record per keyword pair, in the caller's order, the
\* unit unchanged and the value the nearest number with 2 decimals.
MetricTableInOrder ==
    pc = "done" =>
        /\ Len(ret) = Len(args)
        /\ \A i \in DOMAIN args :
              /\ ret[i].metric = args[i].metric
              /\ ret[i].unit = args[i].symbol
              /\ 2 * Abs(100 * args[i].value - ValDen * ret[i].value) <= ValDen

\* two metrics were given in non-lexical order, one with a value that needs
\* rounding, and the table was returned
MetricTableBuilt ==
    /\ pc = "done"
    /\ Len(args) >= 2
    /\ NameRank(args[1].metric) > NameRank(args[2].metric)
    /\ (100 * args[1].value) % ValDen # 0
    /\ Len(ret) = Len(args)

\* the empty call returned the empty table
MetricTableEmpty ==
    /\ pc = "done"
    /\ args = <<>>
    /\ ret = <<>>

(***************************************************************************)
(* Series.value_counts, DataFrame.head and feature_stats(data, feature, n) *)
(*                                                                         *)
(* A column is a sequence of cells.  categories is the declared category   *)
(* set of a column of categorical dtype ({} for a plain object column): a  *)
(* categorical column reports every declared category, the unobserved ones *)
(* with count 0.  Missing cells are dropped (dropna defaults to True).     *)
(* The order among equal counts is not fixed by the library's contract:    *)
(* tie ranks the values and decides it, and the caller of the model draws  *)
(* tie from every ranking.                                                 *)
(***************************************************************************)
MaxRows == 4
MaxCap == 3

Categories == {"a", "b", "c"}

Column(df, name) == [i \in DOMAIN df |-> df[i][name]]

ValidCount(col) == Cardinality({i \in DOMAIN col : ~IsNaN(col[i])})

CountOf(col, k) == Cardinality({i \in DOMAIN col : col[i] = <<k>>})

Observed(col) == {col[i][1] : i \in {j \in DOMAIN col : ~IsNaN(col[j])}}

\* the values of col in the order of their first occurrence
RECURSIVE FirstSeen(_, _, _)
FirstSeen(col, i, acc) ==
    IF i > Len(col) THEN acc
    ELSE IF IsNaN(col[i]) \/ \E j \in DOMAIN acc : acc[j] = col[i][1]
         THEN FirstSeen(col, i + 1, acc)
         ELSE FirstSeen(col, i + 1, Append(acc, col[i][1]))

RECURSIVE SetToSeq(_)
SetToSeq(S) ==
    IF S = {} THEN <<>>
    ELSE LET x == CHOOSE y \in S : TRUE IN <<x>> \o SetToSeq(S \ {x})

\* one entry per observed value and per declared category, not yet sorted
Tally(col, categories) ==
    LET keys == FirstSeen(col, 1, <<>>) \o SetToSeq(categories \ Observed(col))
    IN [i \in DOMAIN keys |-> [value |-> keys[i], count |-> CountOf(col, keys[i])]]

\* value_counts that forgets to sort: the values in the order of tie
value_counts_unsorted(col, categories, ascending, tie) ==
    SortSeq(Tally(col, categories), LAMBDA x, y : tie[x.value] < tie[y.value])

\* col.value_counts(ascending=ascending): one entry per value, sorted by
\* count (sort_values); tie orders the entries of equal count
value_counts(col, categories, ascending, tie) ==
    SortSeq(Tally(col, categories),
            LAMBDA x, y :
                IF x.count # y.count
                THEN (IF ascending THEN x.count < y.count ELSE x.count > y.count)
                ELSE tie[x.value] < tie[y.value])

\* head that loses the last row
head_short(df, n) ==
    IF IsNaN(n) THEN SubSeq(df, 1, Len(df) - 1)
    ELSE SubSeq(df, 1, Min(n[1], Len(df)) - 1)

\* df.head(n) is df.iloc[:n]: everything for None, the first n rows for
\* n >= 0, all but the last -n rows for n < 0
head(df, n) ==
    IF IsNaN(n) THEN df
    ELSE IF n[1] >= 0 THEN SubSeq(df, 1, Min(n[1], Len(df)))
    ELSE SubSeq(df, 1, Max(Len(df) + n[1], 0))

\* a share that is rounded down instead of to the nearest hundredth
percentage_floor(count, total) ==
    IF total = 0 THEN NaN
    ELSE <<RoundTruncate(count * PercentFactor * Scale, total)>>

\* (count / total * 100).round(2), in hundredths of a percent; 0/0 is NaN
percentage(count, total) ==
    IF total = 0 THEN NaN
    ELSE <<round(count * PercentFactor * Scale, total)>>

feature_stats(df, feature, n, categories, tie) ==
    LET col == Column(df, feature)
        counts == value_counts(col, categories, FALSE, tie)
        total == ValidCount(col)
        fstats_df == [i \in DOMAIN counts |->
                         [value |-> counts[i].value,
                          count |-> counts[i].count,
                          percentage |-> percentage(counts[i].count, total)]]
    IN head(fstats_df, n)

Cells == {NaN} \cup {<<k>> : k \in Categories}

Caps == {NaN} \cup {<<k>> : k \in (-1)..MaxCap}

TieOrders(S) ==
    {t \in [S -> 1..Cardinality(S)] : \A a, b \in S : a # b => t[a] # t[b]}

Dtypes == {{}, Categories}

InitStats ==
    /\ data = <<>>
    /\ args = <<>>
    /\ ret = <<>>
    /\ pc = "build"
    /\ metrics = <<>>
    /\ values = <<>>
    /\ units = <<>>

\* the dataset gets one more row
AddRowStats ==
    /\ pc = "build"
    /\ Len(data) < MaxRows
    /\ \E c \in Cells : data' = Append(data, [cat |-> c])
    /\ UNCHANGED <<args, ret, pc, metrics, values, units>>

CallFeatureStats ==
    /\ pc = "build"
    /\ \E n \in Caps, cats \in Dtypes, tie \in TieOrders(Categories) :
          /\ args' = [n |-> n, categories |-> cats, tie |-> tie]
          /\ ret' = feature_stats(data, "cat", n, cats, tie)
    /\ pc' = "done"
    /\ UNCHANGED <<data, metrics, values, units>>

NextStats == AddRowStats \/ CallFeatureStats

SpecStats == InitStats /\ [][NextStats]_vars

CountSum(df) == SumSeq([i \in DOMAIN df |-> df[i].count])

\* C5 as stated: the counts of the uncapped result sum to the number of rows.
CountsSumToRows ==
    (pc = "done" /\ IsNaN(args.n)) => CountSum(ret) = Len(data)

\* C5, amended: the counts of the uncapped result sum to the number of rows
\* whose value in the column is not missing.
CountsSumToValidRows ==
    (pc = "done" /\ IsNaN(args.n)) =>
        CountSum(ret) = Cardinality({i \in DOMAIN data : data[i].cat # <<>>})

\* an uncapped summary of a column with a missing cell and a repeated value
CountsSummedWithMissing ==
    /\ pc = "done"
    /\ IsNaN(args.n)
    /\ \E i \in DOMAIN data : data[i].cat = <<>>
    /\ \E i \in DOMAIN ret : ret[i].count >= 2
    /\ CountSum(ret) = Len(data) - 1

MaxPctRows == 31

PctCategories == 1..MaxPctRows

InitPct ==
    /\ data = <<>>
    /\ args = <<>>
    /\ ret = <<>>
    /\ pc = "build"
    /\ metrics = <<>>
    /\ values = <<>>
    /\ units = <<>>

InsertAt(s, pos, x) == SubSeq(s, 1, pos) \o <<x>> \o SubSeq(s, pos + 1, Len(s))

\* one more row of value k, placed after the rows of the same value
AddRowPct ==
    /\ pc = "build"
    /\ ValidCount(Column(data, "cat")) < MaxPctRows
    /\ LET col == Column(data, "cat")
           distinct == Cardinality(Observed(col))
       IN \E k \in 1..(distinct + 1) :
             /\ k > 1 => CountOf(col, k) + 1 <= CountOf(col, k - 1)
             /\ LET at == {i \in DOMAIN col : col[i] = <<k>>}
                    pos == IF at = {} THEN Len(data)
                           ELSE CHOOSE i \in at : \A j \in at : j <= i
                IN data' = InsertAt(data, pos, [cat |-> <<k>>])
    /\ UNCHANGED <<args, ret, pc, metrics, values, units>>

\* a row with a missing value, in front of the rows that have one (a column
\* with nothing but missing values is a dataset of SpecStats)
AddMissingPct ==
    /\ pc = "build"
    /\ data # <<>>
    /\ \A i \in DOMAIN data : data[i].cat # <<>>
    /\ data' = <<[cat |-> NaN]>> \o data
    /\ UNCHANGED <<args, ret, pc, metrics, values, units>>

CallFeatureStatsPct ==
    /\ pc = "build"
    /\ args' = [n |-> NaN, categories |-> {}, tie |-> [k \in PctCategories |-> k]]
    /\ ret' = feature_stats(data, "cat", NaN, {}, [k \in PctCategories |-> k])
    /\ pc' = "done"
    /\ UNCHANGED <<data, metrics, values, units>>

NextPct == AddRowPct \/ AddMissingPct \/ CallFeatureStatsPct

SpecPct == InitPct /\ [][NextPct]_vars

\* the percentages of df, in hundredths of a percent, added up; a NaN
\* percentage makes the sum NaN
PercentageSum(df) ==
    IF \E i \in DOMAIN df : IsNaN(df[i].percentage) THEN NaN
    ELSE <<SumSeq([i \in DOMAIN df |-> df[i].percentage[1]])>>

\* C6 as stated: on a non-empty dataset the percentages of the uncapped
\* result sum to a value within 0.1 of 100.
PercentagesNear100 ==
    (pc = "done" /\ IsNaN(args.n) /\ data # <<>>) =>
        /\ ~IsNaN(PercentageSum(ret))
        /\ Abs(PercentageSum(ret)[1] - 100 * 100) <= 10

\* C6, amended: when the column has a value that is not missing, the
\* percentages of the uncapped result sum to a value within 0.005 times the
\* number of records of 100 (so within 0.1 up to 20 records).
PercentagesNear100PerRecord ==
    (pc = "done" /\ IsNaN(args.n) /\ \E i \in DOMAIN data : data[i].cat # <<>>) =>
        /\ ~IsNaN(PercentageSum(ret))
        /\ 2 * Abs(PercentageSum(ret)[1] - 100 * 100) <= Len(ret)
        /\ Len(ret) <= 20 => Abs(PercentageSum(ret)[1] - 100 * 100) <= 10

\* three values sharing the rows equally: the rounded shares miss 100
PercentagesRoundedOff ==
    /\ pc = "done"
    /\ IsNaN(args.n)
    /\ Len(ret) = 3
    /\ \A i \in DOMAIN ret : ret[i].count = 2
    /\ PercentageSum(ret) = <<9999>>

(***************************************************************************)
(* feature_filtered_stats(data, feature, filter_column, filter_value,      *)
(*                        ascending_sort)                                  *)
(* filter_value is a string, as documented.  The returned table is         *)
(* [error, suffix, rows]: suffix is filter_value.lower(), the tail of the  *)
(* two column names count_<suffix> and percentage_<suffix>.                *)
(***************************************************************************)
MaxFiltRows == 3

Days == {"Weekend", "Weekday"}

\* str.lower() on the filter values
lower(str) == CASE str = "Weekend" -> "weekend"
                [] str = "Weekday" -> "weekday"

Filter(df, name, value) ==
    LET F[i \in 0..Len(df)] ==
            IF i = 0 THEN <<>>
            ELSE IF df[i][name] = <<value>> THEN Append(F[i - 1], df[i])
            ELSE F[i - 1]
    IN F[Len(df)]

\* Python's scalar division: dividing by a zero total raises
divide_strict(counts, total) ==
    IF total = 0 THEN [error |-> "ZeroDivisionError", cells |-> <<>>]
    ELSE [error |-> "none",
          cells |-> [i \in DOMAIN counts |-> percentage(counts[i].count, total)]]

\* (counts / total_counts * 100).round(2): elementwise Series arithmetic,
\* which never raises; 0/0 is NaN
divide(counts, total) ==
    [error |-> "none",
     cells |-> [i \in DOMAIN counts |-> percentage(counts[i].count, total)]]

\* .fillna(0) on one cell
fillna(cell, v) == IF IsNaN(cell) THEN <<v>> ELSE cell

feature_filtered_stats(df, feature, filter_column, filter_value, ascending_sort, categories, tie) ==
    LET filtered_df == Filter(df, filter_column, filter_value)
        counts == value_counts(Column(filtered_df, feature), categories,
                               ascending_sort, tie)
        total_counts == SumSeq([i \in DOMAIN counts |-> counts[i].count])
        percentages == divide(counts, total_counts)
    IN IF percentages.error # "none"
       THEN [error |-> percentages.error, suffix |-> "", rows |-> <<>>]
       ELSE [error |-> "none",
             suffix |-> lower(filter_value),
             rows |-> [i \in DOMAIN counts |->
                          [value |-> counts[i].value,
                           count |-> fillna(<<counts[i].count>>, 0),
                           percentage |-> fillna(percentages.cells[i], 0)]]]

InitFilt ==
    /\ data = <<>>
    /\ args = <<>>
    /\ ret = <<>>
    /\ pc = "build"
    /\ metrics = <<>>
    /\ values = <<>>
    /\ units = <<>>

AddRowFilt ==
    /\ pc = "build"
    /\ Len(data) < MaxFiltRows
    /\ \E c \in Cells, d \in Days : data' = Append(data, [cat |-> c, day |-> <<d>>])
    /\ UNCHANGED <<args, ret, pc, metrics, values, units>>

CallFeatureFilteredStats ==
    /\ pc = "build"
    /\ \E fv \in Days, asc \in BOOLEAN, cats \in Dtypes, tie \in TieOrders(Categories) :
          /\ args' = [filter_value |-> fv, ascending_sort |-> asc,
                      categories |-> cats, tie |-> tie]
          /\ ret' = feature_filtered_stats(data, "cat", "day", fv, asc, cats, tie)
    /\ pc' = "done"
    /\ UNCHANGED <<data, metrics, values, units>>

NextFilt == AddRowFilt \/ CallFeatureFilteredStats

SpecFilt == InitFilt /\ [][NextFilt]_vars

NoRowMatches == \A i \in DOMAIN data : data[i].day # <<args.filter_value>>

\* C7 as stated: when no row matches the filter, the call returns without
\* an error and the table has no records.
EmptyFilterEmptyTable ==
    (pc = "done" /\ NoRowMatches) => (ret.error = "none" /\ ret.rows = <<>>)

\* C7, amended: when no row matches the filter, the call returns without an
\* error; the table has no records when the summarised column is not of
\* categorical dtype, and otherwise one record per declared category, with
\* count 0 and percentage 0.
EmptyFilterEmptyOrZeroFilled ==
    (pc = "done" /\ NoRowMatches) =>
        /\ ret.error = "none"
        /\ args.categories = {} => ret.rows = <<>>
        /\ args.categories # {} =>
              /\ Len(ret.rows) = Cardinality(args.categories)
              /\ {ret.rows[i].value : i \in DOMAIN ret.rows} = args.categories
              /\ \A i \in DOMAIN ret.rows :
                    ret.rows[i].count = <<0>> /\ ret.rows[i].percentage = <<0>>

\* rows exist, none of them matches, and the plain column gave an empty table
FilterMatchedNothing ==
    /\ pc = "done"
    /\ Len(data) >= 2
    /\ NoRowMatches
    /\ args.categories = {}
    /\ ret.rows = <<>>

(***************************************************************************)
(* feature_grouped_stats(data, gbfeatures, features)                       *)
(* groupby sorts the groups by key and drops the rows whose key is         *)
(* missing; mean and std skip missing values.  A numeric cell <<v>> is     *)
(* the number v / ValDen; mean and std are returned in hundredths.         *)
(***************************************************************************)
MaxGrpRows == 3

GroupKeys == {1, 2}
NumCells == {<<v>> : v \in {0, 1, 4, 6}}

\* the numerators of the cells of col that hold a value
Valid(col) ==
    LET F[i \in 0..Len(col)] ==
            IF i = 0 THEN <<>>
            ELSE IF IsNaN(col[i]) THEN F[i - 1] ELSE Append(F[i - 1], col[i][1])
    IN F[Len(col)]

\* Series.mean().round(2): NaN when no value is present
mean(col) ==
    LET v == Valid(col)
    IN IF Len(v) = 0 THEN NaN ELSE <<round(SumSeq(v) * Scale, Len(v) * ValDen)>>

\* 100 * sqrt(a / b) to the nearest integer, for a >= 0 and b > 0
SqrtHundredths(a, b) ==
    CHOOSE r \in 0..(Scale * a + 1) :
        /\ r = 0 \/ (2 * r - 1) * (2 * r - 1) * b <= 4 * Scale * Scale * a
        /\ 4 * Scale * Scale * a < (2 * r + 1) * (2 * r + 1) * b

\* the population standard deviation (ddof = 0): 0 for a single value
std_population(col) ==
    LET v == Valid(col)
        n == Len(v)
        sq == SumSeq([i \in DOMAIN v |-> v[i] * v[i]])
    IN IF n < 1 THEN NaN
       ELSE <<SqrtHundredths(n * sq - SumSeq(v) * SumSeq(v), n * n * ValDen * ValDen)>>

\* Series.std().round(2): the sample standard deviation (ddof = 1), NaN
\* when fewer than two values are present
std(col) ==
    LET v == Valid(col)
        n == Len(v)
        sq == SumSeq([i \in DOMAIN v |-> v[i] * v[i]])
    IN IF n < 2 THEN NaN
       ELSE <<SqrtHundredths(n * sq - SumSeq(v) * SumSeq(v),
                             n * (n - 1) * ValDen * ValDen)>>

\* the keys of the groups, in increasing order
RECURSIVE SortedKeys(_)
SortedKeys(S) ==
    IF S = {} THEN <<>>
    ELSE LET least == CHOOSE x \in S : \A y \in S : x <= y
         IN <<least>> \o SortedKeys(S \ {least})

feature_grouped_stats(df, gbfeatures, features) ==
    LET keys == SortedKeys(Observed(Column(df, gbfeatures)))
    IN [g \in DOMAIN keys |->
           LET group == Filter(df, gbfeatures, keys[g])
           IN [key |-> keys[g],
               mean |-> [f \in features |-> mean(Column(group, f))],
               std |-> [f \in features |-> std(Column(group, f))]]]

InitGrp ==
    /\ data = <<>>
    /\ args = <<>>
    /\ ret = <<>>
    /\ pc = "build"
    /\ metrics = <<>>
    /\ values = <<>>
    /\ units = <<>>

AddRowGrp ==
    /\ pc = "build"
    /\ Len(data) < MaxGrpRows
    /\ \E k \in {NaN} \cup {<<g>> : g \in GroupKeys}, c \in NumCells :
          data' = Append(data, [grp |-> k, num |-> c])
    /\ UNCHANGED <<args, ret, pc, metrics, values, units>>

CallFeatureGroupedStats ==
    /\ pc = "build"
    /\ args' = [gbfeatures |-> "grp", features |-> {"num"}]
    /\ ret' = feature_grouped_stats(data, "grp", {"num"})
    /\ pc' = "done"
    /\ UNCHANGED <<data, metrics, values, units>>

NextGrp == AddRowGrp \/ CallFeatureGroupedStats

SpecGrp == InitGrp /\ [][NextGrp]_vars

Members(k) == {i \in DOMAIN data : data[i].grp = <<k>>}

\* C10 as stated: for a group of exactly one member the mean is defined and
\* equal to the member's value, and the standard deviation is missing.
SingletonMeanIsValue ==
    pc = "done" =>
        \A g \in DOMAIN ret :
           Cardinality(Members(ret[g].key)) = 1 =>
              LET cell == data[CHOOSE i \in Members(ret[g].key) : TRUE].num
              IN /\ ret[g].mean["num"] # <<>>
                 /\ ValDen * ret[g].mean["num"][1] = 100 * cell[1]
                 /\ ret[g].std["num"] = <<>>

\* C10, amended: for a group of exactly one member, whose value is not
\* missing, the mean is defined and is the member's value rounded to 2
\* decimals, and the standard deviation is missing.
SingletonMeanIsRoundedValue ==
    pc = "done" =>
        \A g \in DOMAIN ret :
           Cardinality(Members(ret[g].key)) = 1 =>
              LET cell == data[CHOOSE i \in Members(ret[g].key) : TRUE].num
                  m == ret[g].mean["num"]
              IN /\ ret[g].std["num"] = <<>>
                 /\ m # <<>>
                 /\ 2 * Abs(100 * cell[1] - ValDen * m[1]) <= ValDen

\* a group of one member, whose value has more than 2 decimals, next to a
\* group of two, both summarised
SingletonGroupSummarised ==
    /\ pc = "done"
    /\ Len(ret) = 2
    /\ Cardinality(Members(ret[1].key)) = 1
    /\ \E i \in Members(ret[1].key) : (100 * data[i].num[1]) % ValDen # 0
    /\ ret[1].mean["num"] # <<>>
    /\ ret[1].std["num"] = <<>>
    /\ ret[2].std["num"] # <<>>
    /\ ret[2].std["num"] # <<0>>

(***************************************************************************)
(* top_and_bottom_restaurants(data, filter_feature, delivery_threshold)    *)
(* A feature cell <<v>> is the number v / ValDen.  The returned Styler is  *)
(* [rows, border]: rows are the records of average_time_df, each with the  *)
(* index label it kept from average_time, and border is the set of         *)
(* positions of rows that add_upper_border gives a bottom border (the     *)
(* rows whose label is 4; add_upper_border_index marks the same labels).   *)
(* The datasets have their rows grouped by restaurant, the restaurants     *)
(* numbered in order of appearance.                                        *)
(***************************************************************************)
MaxTopRows == 7

\* delivery_threshold=10
delivery_threshold == 10

\* average_time.head(5)
HeadRows == 5

\* average_time.tail(5)
TailRows == 5

\* row.name == 4 / val == 4
BorderLabel == 4

FeatureVals == {1, 2}
Thresholds == {0, 1, delivery_threshold}

\* the filter lambda with an inclusive comparison
keeps_group_inclusive(x, threshold) == Len(x) >= threshold

\* lambda x: len(x) > delivery_threshold
keeps_group(x, threshold) == Len(x) > threshold

\* data.groupby(name).filter(keep): the rows of the groups that pass
GroupFilter(df, name, threshold) ==
    LET F[i \in 0..Len(df)] ==
            IF i = 0 THEN <<>>
            ELSE IF /\ ~IsNaN(df[i][name])
                    /\ keeps_group(Filter(df, name, df[i][name][1]), threshold)
                 THEN Append(F[i - 1], df[i])
                 ELSE F[i - 1]
    IN F[Len(df)]

\* the last rows that head(n) has not taken already
tail_rest(df, n) == SubSeq(df, Max(Max(Len(df) - n, 0), Min(n, Len(df))) + 1, Len(df))

\* df.tail(n) is df.iloc[-n:], for n > 0
tail(df, n) == SubSeq(df, Max(Len(df) - n, 0) + 1, Len(df))

\* groupby(name)[feature].mean().sort_values().round(2).reset_index():
\* one record per group, by ascending exact mean, the mean then rounded,
\* labelled 0, 1, 2, ...  Groups of equal mean stay in key order: the
\* default sort of sort_values is an insertion sort on so few entries.
average_by_group(df, name, feature) ==
    LET keys == SortedKeys(Observed(Column(df, name)))
        groups == [g \in DOMAIN keys |->
                      LET v == Valid(Column(Filter(df, name, keys[g]), feature))
                      IN [key |-> keys[g], sum |-> SumSeq(v), n |-> Len(v)]]
        sorted == SortSeq(groups,
                          LAMBDA a, b :
                              \/ a.sum * b.n < b.sum * a.n
                              \/ a.sum * b.n = b.sum * a.n /\ a.key < b.key)
    IN [i \in DOMAIN sorted |->
           [label |-> i - 1,
            restaurant_name |-> sorted[i].key,
            average |-> round(sorted[i].sum * Scale, sorted[i].n * ValDen)]]

top_and_bottom_restaurants(df, filter_feature, threshold) ==
    LET filtered_df == GroupFilter(df, "restaurant_name", threshold)
        average_time == average_by_group(filtered_df, "restaurant_name", filter_feature)
        top_5 == head(average_time, <<HeadRows>>)
        last_5 == tail(average_time, TailRows)
        average_time_df == top_5 \o last_5
    IN [rows |-> average_time_df,
        border |-> {i \in DOMAIN average_time_df :
                       average_time_df[i].label = BorderLabel}]

InitTop ==
    /\ data = <<>>
    /\ args = <<>>
    /\ ret = <<>>
    /\ pc = "build"
    /\ metrics = <<>>
    /\ values = <<>>
    /\ units = <<>>

\* one more order: of the last restaurant, or of a new one
AddRowTop ==
    /\ pc = "build"
    /\ Len(data) < MaxTopRows
    /\ LET last == IF data = <<>> THEN 0 ELSE data[Len(data)].restaurant_name[1]
       IN \E k \in {last, last + 1} \ {0}, v \in FeatureVals :
             data' = Append(data, [restaurant_name |-> <<k>>, time |-> <<v>>])
    /\ UNCHANGED <<args, ret, pc, metrics, values, units>>

CallTopAndBottom ==
    /\ pc = "build"
    /\ \E t \in Thresholds :
          /\ args' = [filter_feature |-> "time", delivery_threshold |-> t]
          /\ ret' = top_and_bottom_restaurants(data, "time", t)
    /\ pc' = "done"
    /\ UNCHANGED <<data, metrics, values, units>>

NextTop == AddRowTop \/ CallTopAndBottom

SpecTop == InitTop /\ [][NextTop]_vars

Orders(k) == {i \in DOMAIN data : data[i].restaurant_name = <<k>>}

Restaurants == {data[i].restaurant_name[1] : i \in DOMAIN data}

\* the restaurants with more orders than the threshold of the call
Qualifying == {k \in Restaurants : Cardinality(Orders(k)) > args.delivery_threshold}

LowHalf == SubSeq(ret.rows, 1, Min(5, Cardinality(Qualifying)))

HighHalf == SubSeq(ret.rows, Min(5, Cardinality(Qualifying)) + 1, Len(ret.rows))

Overlap ==
    {LowHalf[i].restaurant_name : i \in DOMAIN LowHalf}
        \cap {HighHalf[i].restaurant_name : i \in DOMAIN HighHalf}

\* C3 as stated: with exactly 7 qualifying restaurants the result has 7
\* records and the two halves share exactly 3 restaurants.
SevenQualifyingSevenRecords ==
    (pc = "done" /\ Cardinality(Qualifying) = 7) =>
        /\ Len(ret.rows) = 7
        /\ Cardinality(Overlap) = 3

\* C3, amended: with exactly 7 qualifying restaurants the result has 10
\* records, 5 low and 5 high, and the two halves share exactly 3
\* restaurants, each of them listed twice.
SevenQualifyingTenRecords ==
    (pc = "done" /\ Cardinality(Qualifying) = 7) =>
        /\ Len(ret.rows) = 10
        /\ Len(LowHalf) = 5
        /\ Len(HighHalf) = 5
        /\ Cardinality(Overlap) = 3
        /\ \A k \in Overlap :
              Cardinality({i \in DOMAIN ret.rows : ret.rows[i].restaurant_name = k}) = 2

\* seven restaurants qualified and were reported
SevenQualifyingReported ==
    /\ pc = "done"
    /\ Cardinality(Qualifying) = 7
    /\ Len(ret.rows) > 0

\* C4: whenever a restaurant qualifies, exactly one record carries the
\* boundary mark, and it is the last record of the low half.
BoundaryAfterLowHalf ==
    (pc = "done" /\ Qualifying # {}) => ret.border = {Len(LowHalf)}

====
